---------------------------- MODULE Spec2Model ----------------------------
(***************************************************************************)
(* Model of corro-api-types (crates/corro-api-types/src/lib.rs): the       *)
(* SqliteValue model, the Change record, their speedy binary codec, the    *)
(* equality / hashing of values, ColumnType and the untagged textual       *)
(* decoding of Statement.                                                  *)
(*                                                                         *)
(* Representation.  A byte is a number in 0..255 and a buffer a sequence   *)
(* of bytes.  A 64-bit quantity (an i64, or the bit pattern of an f64) is  *)
(* a tuple of four 16-bit limbs, most significant first, so that the       *)
(* boundary patterns (i64::MIN, NaN, -0.0) are exact and no arithmetic     *)
(* exceeds 32 bits.  Text is held as its UTF-8 bytes.                      *)
(***************************************************************************)
EXTENDS Integers, Sequences, FiniteSets, TLC

\* the library calls: the call in progress, its operands and its results
VARIABLES pc, val, rhs, chg, rchg, wire, out, size, cmp, ctype, code, json, stmt,
          ctypeName, dcat, dhashes, dskip, dops, dprev

\* the catalog synchronizer: the catalog, the in-memory hash maps, the store,
\* the pull loop and the parity of the ticks of its interval, what the last
\* pull did, and whether the catalog has changed since the last pull that
\* returned Ok
VARIABLES consulServices, consulChecks, serviceHashes, checkHashes, store,
          loop, tick, quiet, errorCount, lastPull, sinceSync

\* the subscriptions: each one's producer and the events it has emitted
VARIABLES subs

libVars == <<pc, val, rhs, chg, rchg, wire, out, size, cmp, ctype, code, json, stmt,
             ctypeName, dcat, dhashes, dskip, dops, dprev>>

syncVars == <<consulServices, consulChecks, serviceHashes, checkHashes, store,
              loop, tick, quiet, errorCount, lastPull, sinceSync>>

subVars == <<subs>>

\* what a call on values, changes or statements leaves alone
otherVars == <<ctypeName, dcat, dhashes, dskip, dops, dprev, syncVars, subVars>>

vars == <<libVars, syncVars, subVars>>

(***************************************************************************)
(* Bounds of the model.                                                    *)
(***************************************************************************)
\* longest Text / Blob payload of a value that is encoded
MaxLen == 2
\* longest body (the bytes after the tag byte) of a buffer received from outside
MaxRawBody == 5
\* longest positional parameter list of a decoded statement
MaxParams == 2

(***************************************************************************)
(* Buffers.                                                                *)
(***************************************************************************)
Take(s, n) == SubSeq(s, 1, n)

Drop(s, n) == SubSeq(s, n + 1, Len(s))

SeqsUpTo(S, n) == UNION {[1..k -> S] : k \in 0..n}

\* the prefixes of a buffer, the buffer itself included
Prefixes(s) == {Take(s, k) : k \in 0..Len(s)}

\* core::str::from_utf8, which speedy's `&str` reader applies to the bytes it read
RECURSIVE ValidUtf8(_)
ValidUtf8(s) ==
    IF s = <<>> THEN TRUE
    ELSE LET b == s[1]
             cont(i) == i <= Len(s) /\ s[i] >= 128 /\ s[i] <= 191
             in(i, lo, hi) == i <= Len(s) /\ s[i] >= lo /\ s[i] <= hi
         IN  IF b < 128 THEN ValidUtf8(Drop(s, 1))
             ELSE IF b >= 194 /\ b <= 223
                  THEN cont(2) /\ ValidUtf8(Drop(s, 2))
             ELSE IF b >= 224 /\ b <= 239
                  THEN /\ CASE b = 224 -> in(2, 160, 191)
                            [] b = 237 -> in(2, 128, 159)
                            [] OTHER   -> cont(2)
                       /\ cont(3)
                       /\ ValidUtf8(Drop(s, 3))
             ELSE IF b >= 240 /\ b <= 244
                  THEN /\ CASE b = 240 -> in(2, 144, 191)
                            [] b = 244 -> in(2, 128, 143)
                            [] OTHER   -> cont(2)
                       /\ cont(3)
                       /\ cont(4)
                       /\ ValidUtf8(Drop(s, 4))
             ELSE FALSE

(***************************************************************************)
(* speedy's primitive writers (little-endian context).                     *)
(***************************************************************************)
\* a u32 length, 4 bytes
WriteU32(n) ==
    <<n % 256, (n \div 256) % 256, (n \div 65536) % 256, (n \div 16777216) % 256>>

\* an i64 / the bits of an f64, 8 bytes; q = <<w3, w2, w1, w0>>
WriteU64(q) ==
    <<q[4] % 256, q[4] \div 256, q[3] % 256, q[3] \div 256,
      q[2] % 256, q[2] \div 256, q[1] % 256, q[1] \div 256>>

\* a byte slice or a str: the u32 length, then the raw bytes
WriteBytes(b) == WriteU32(Len(b)) \o b

(***************************************************************************)
(* speedy's primitive readers.  A reader returns a record                  *)
(*   [ok |-> TRUE,  v |-> what was read, rest |-> the bytes not consumed]  *)
(* or Err, the decode error.                                               *)
(***************************************************************************)
Err == [ok |-> FALSE]

Ok(v, rest) == [ok |-> TRUE, v |-> v, rest |-> rest]

ReadU8(s) == IF Len(s) < 1 THEN Err ELSE Ok(s[1], Drop(s, 1))

\* the announced length; lengths of 2^31 and more exceed every buffer of the
\* model and are held as 2^31 - 1
ReadU32(s) ==
    IF Len(s) < 4 THEN Err
    ELSE Ok(IF s[4] >= 128 THEN 2147483647
            ELSE s[1] + 256 * s[2] + 65536 * s[3] + 16777216 * s[4],
            Drop(s, 4))

ReadU64(s) ==
    IF Len(s) < 8 THEN Err
    ELSE Ok(<<s[7] + 256 * s[8], s[5] + 256 * s[6],
              s[3] + 256 * s[4], s[1] + 256 * s[2]>>,
            Drop(s, 8))

\* Reader::read_vec(len): exactly len bytes or an error
ReadVec(s, len) ==
    IF Len(s) < len THEN Err ELSE Ok(Take(s, len), Drop(s, len))

\* Reader::read_bytes(output): fills the slice `output`, whose length is outLen
ReadBytesInto(s, outLen) == ReadVec(s, outLen)

\* Vec<u8>: the u32 length, then that many bytes
ReadByteVec(s) ==
    LET l == ReadU32(s)
    IN  IF ~l.ok THEN Err ELSE ReadVec(l.rest, l.v)

\* &str: the u32 length, that many bytes, validated as UTF-8
ReadStr(s) ==
    LET b == ReadByteVec(s)
    IN  IF ~b.ok THEN Err
        ELSE IF ~ValidUtf8(b.v) THEN Err
        ELSE b

\* [u8; 16]: sixteen raw bytes, no length prefix
ReadSiteId(s) == ReadVec(s, 16)

(***************************************************************************)
(* SqliteValue (lib.rs 383-396).  One record shape for the five variants:  *)
(* num is the payload of Integer (the i64) and of Real (the f64's bits),   *)
(* bytes the payload of Text (its UTF-8 bytes) and of Blob.                *)
(***************************************************************************)
Zero64 == <<0, 0, 0, 0>>

Null == [kind |-> "Null", num |-> Zero64, bytes |-> <<>>]

Integer(i) == [kind |-> "Integer", num |-> i, bytes |-> <<>>]

Real(f) == [kind |-> "Real", num |-> f, bytes |-> <<>>]

Text(s) == [kind |-> "Text", num |-> Zero64, bytes |-> s]

Blob(b) == [kind |-> "Blob", num |-> Zero64, bytes |-> b]

(***************************************************************************)
(* impl Writable for SqliteValue (lib.rs 607-644).                         *)
(***************************************************************************)
WriteValue(v) ==
    CASE v.kind = "Null"    -> <<0>>
      [] v.kind = "Integer" -> <<1>> \o WriteU64(v.num)
      [] v.kind = "Real"    -> <<2>> \o WriteU64(v.num)
      [] v.kind = "Text"    -> <<3>> \o WriteBytes(v.bytes)
      [] v.kind = "Blob"    -> <<4>> \o WriteBytes(v.bytes)

\* BytesNeeded with Null counted as one payload byte, as the estimate counts it
BytesNeededNullPayload(v) ==
    1 + CASE v.kind = "Null"    -> 1
          [] v.kind = "Integer" -> 8
          [] v.kind = "Real"    -> 8
          [] v.kind = "Text"    -> 4 + Len(v.bytes)
          [] v.kind = "Blob"    -> 4 + Len(v.bytes)

\* bytes_needed of the primitives: 8 for i64 and f64, 4 + len for a slice
BytesNeeded(v) ==
    1 + CASE v.kind = "Null"    -> 0
          [] v.kind = "Integer" -> 8
          [] v.kind = "Real"    -> 8
          [] v.kind = "Text"    -> 4 + Len(v.bytes)
          [] v.kind = "Blob"    -> 4 + Len(v.bytes)

(***************************************************************************)
(* impl Readable for SqliteValue (lib.rs 572-605).  The result is the set  *)
(* of outcomes the read can have: one outcome everywhere except where the  *)
(* code's behaviour is undefined.                                          *)
(***************************************************************************)
\* CompactString::from_utf8_unchecked(bytes): the bytes are taken as they are
\* when they are UTF-8; otherwise the behaviour is undefined, and the string
\* that results holds the bytes or some part of them.  Never an error.
FromUtf8Unchecked(b) == IF ValidUtf8(b) THEN {b} ELSE Prefixes(b)

\* SmallVec::with_capacity(cap): an empty vector, whatever the capacity
WithCapacityLen(cap) == 0

ReadInteger(s) ==
    LET i == ReadU64(s)
    IN  IF ~i.ok THEN {Err} ELSE {Ok(Integer(i.v), i.rest)}

ReadReal(s) ==
    LET f == ReadU64(s)
    IN  IF ~f.ok THEN {Err} ELSE {Ok(Real(f.v), f.rest)}

ReadText(s) ==
    LET l == ReadU32(s)
    IN  IF ~l.ok THEN {Err}
        ELSE LET b == ReadVec(l.rest, l.v)
             IN  IF ~b.ok THEN {Err}
                 ELSE {Ok(Text(t), b.rest) : t \in FromUtf8Unchecked(b.v)}

\* `vec` is created with capacity len and length 0; read_bytes(&mut vec) fills
\* the slice vec derefs to, which is vec's current length long
ReadBlob(s) ==
    LET l == ReadU32(s)
    IN  IF ~l.ok THEN {Err}
        ELSE LET b == ReadBytesInto(l.rest, WithCapacityLen(l.v))
             IN  IF ~b.ok THEN {Err} ELSE {Ok(Blob(b.v), b.rest)}

\* ReadUnknownVariant falling back to the default variant
ReadUnknownVariantAsNull(tag, s) == {Ok(Null, s)}

\* the `_ =>` arm
ReadUnknownVariant(tag, s) == {Err}

ReadValue(s) ==
    LET t == ReadU8(s)
    IN  IF ~t.ok THEN {Err}
        ELSE CASE t.v = 0 -> {Ok(Null, t.rest)}
               [] t.v = 1 -> ReadInteger(t.rest)
               [] t.v = 2 -> ReadReal(t.rest)
               [] t.v = 3 -> ReadText(t.rest)
               [] t.v = 4 -> ReadBlob(t.rest)
               [] OTHER   -> ReadUnknownVariant(t.v, t.rest)

(***************************************************************************)
(* Change (lib.rs 164-175) and its derived Writable / Readable: the fields *)
(* in declaration order.  TableName and ColumnName write and read          *)
(* themselves as a str (lib.rs 662-686, 708-732).                          *)
(***************************************************************************)
WriteTableName(t) == WriteBytes(t)

WriteColumnName(c) == WriteBytes(c)

ReadTableName(s) == ReadStr(s)

ReadColumnName(s) == ReadStr(s)

WriteChange(c) ==
    WriteTableName(c.table) \o WriteBytes(c.pk) \o WriteColumnName(c.cid)
      \o WriteValue(c.val) \o WriteU64(c.col_version) \o WriteU64(c.db_version)
      \o WriteU64(c.seq) \o c.site_id \o WriteU64(c.cl)

\* the fields after val, read from s; `sofar` holds the fields read before,
\* `at` the offsets at which each field so far started, n the length of the input
ReadChangeTail(sofar, at, n, s) ==
    LET cv == ReadU64(s)
    IN  IF ~cv.ok THEN Err ELSE
    LET dv == ReadU64(cv.rest)
    IN  IF ~dv.ok THEN Err ELSE
    LET sq == ReadU64(dv.rest)
    IN  IF ~sq.ok THEN Err ELSE
    LET si == ReadSiteId(sq.rest)
    IN  IF ~si.ok THEN Err ELSE
    LET cl == ReadU64(si.rest)
    IN  IF ~cl.ok THEN Err ELSE
        [ok   |-> TRUE,
         v    |-> [table |-> sofar.table, pk |-> sofar.pk, cid |-> sofar.cid,
                   val |-> sofar.val, col_version |-> cv.v, db_version |-> dv.v,
                   seq |-> sq.v, site_id |-> si.v, cl |-> cl.v],
         rest |-> cl.rest,
         at   |-> at \o <<n - Len(s), n - Len(cv.rest), n - Len(dv.rest),
                          n - Len(sq.rest), n - Len(si.rest)>>]

ReadChange(s) ==
    LET n == Len(s)
        t == ReadTableName(s)
    IN  IF ~t.ok THEN {Err} ELSE
    LET p == ReadByteVec(t.rest)
    IN  IF ~p.ok THEN {Err} ELSE
    LET c == ReadColumnName(p.rest)
    IN  IF ~c.ok THEN {Err} ELSE
        { IF ~v.ok THEN Err
          ELSE ReadChangeTail([table |-> t.v, pk |-> p.v, cid |-> c.v, val |-> v.v],
                              <<0, n - Len(t.rest), n - Len(p.rest), n - Len(c.rest)>>,
                              n, v.rest)
          : v \in ReadValue(c.rest) }

(***************************************************************************)
(* Equality and hashing (lib.rs 164, 383, 394-424).                        *)
(***************************************************************************)
\* f64: NaN is exponent 0x7ff with a non-zero fraction
IsNaN(f) ==
    /\ (f[1] \div 16) % 2048 = 2047
    /\ <<f[1] % 16, f[2], f[3], f[4]>> # Zero64

\* +0.0 and -0.0
IsZeroF64(f) == <<f[1] % 32768, f[2], f[3], f[4]>> = Zero64

\* IEEE-754 ==: NaN equals nothing, +0.0 equals -0.0, otherwise equal bits
F64Eq(a, b) ==
    /\ ~IsNaN(a)
    /\ ~IsNaN(b)
    /\ \/ a = b
       \/ IsZeroF64(a) /\ IsZeroF64(b)

\* #[derive(PartialEq)] on Real(f64): f64's ==
RealEq(a, b) == F64Eq(a, b)

\* #[derive(PartialEq)] on SqliteValue: same variant and equal payloads
ValueEq(a, b) ==
    /\ a.kind = b.kind
    /\ CASE a.kind = "Null"    -> TRUE
         [] a.kind = "Integer" -> a.num = b.num
         [] a.kind = "Real"    -> RealEq(a.num, b.num)
         [] a.kind = "Text"    -> a.bytes = b.bytes
         [] a.kind = "Blob"    -> a.bytes = b.bytes

\* #[derive(PartialEq)] on Change: every field equal
ChangeEq(a, b) ==
    /\ a.table = b.table
    /\ a.pk = b.pk
    /\ a.cid = b.cid
    /\ ValueEq(a.val, b.val)
    /\ a.col_version = b.col_version
    /\ a.db_version = b.db_version
    /\ a.seq = b.seq
    /\ a.site_id = b.site_id
    /\ a.cl = b.cl

\* a 52-bit fraction <<a, b, c, d>> shifted left by one bit
Shl1(m) ==
    <<(2 * m[1]) + ((2 * m[2]) \div 65536),
      ((2 * m[2]) % 65536) + ((2 * m[3]) \div 65536),
      ((2 * m[3]) % 65536) + ((2 * m[4]) \div 65536),
      (2 * m[4]) % 65536>>

\* integer_decode(val) = (mantissa, exponent, sign)
IntegerDecode(f) ==
    LET sign     == IF f[1] \div 32768 = 0 THEN 1 ELSE -1
        exponent == (f[1] \div 16) % 2048
        fraction == <<f[1] % 16, f[2], f[3], f[4]>>
        mantissa == IF exponent = 0 THEN Shl1(fraction)
                    ELSE <<fraction[1] + 16, fraction[2], fraction[3], fraction[4]>>
    IN  <<mantissa, exponent - (1023 + 52), sign>>

\* impl Hash for Real: what is fed to the hasher
RealHash(f) ==
    LET d == IntegerDecode(f) IN <<d[1], <<d[2]>>, <<d[3]>>>>

\* #[derive(Hash)] on SqliteValue: the discriminant, then the payload's hash
\* (str: the bytes and 0xff; slice: the length and the bytes)
ValueHash(v) ==
    CASE v.kind = "Null"    -> << <<0>> >>
      [] v.kind = "Integer" -> << <<1>>, v.num >>
      [] v.kind = "Real"    -> << <<2>> >> \o RealHash(v.num)
      [] v.kind = "Text"    -> << <<3>>, v.bytes \o <<255>> >>
      [] v.kind = "Blob"    -> << <<4>>, <<Len(v.bytes)>>, v.bytes >>

(***************************************************************************)
(* ColumnType (lib.rs 263-282, 427-435).                                   *)
(***************************************************************************)
\* the enum's discriminants
ColumnTypeCode(t) ==
    CASE t = "Integer" -> 1
      [] t = "Float"   -> 2
      [] t = "Text"    -> 3
      [] t = "Blob"    -> 4
      [] t = "Null"    -> 5

\* FromU8 numbering the variants from zero
FromU8ZeroBased(u) ==
    CASE u = 0 -> "Integer"
      [] u = 1 -> "Float"
      [] u = 2 -> "Text"
      [] u = 3 -> "Blob"
      [] u = 4 -> "Null"
      [] OTHER -> "None"

\* ColumnType::from_u8; "None" is Option::None
FromU8(u) ==
    CASE u = 1 -> "Integer"
      [] u = 2 -> "Float"
      [] u = 3 -> "Text"
      [] u = 4 -> "Blob"
      [] u = 5 -> "Null"
      [] OTHER -> "None"

\* SqliteValue::column_type
ColumnTypeOf(v) ==
    CASE v.kind = "Null"    -> "Null"
      [] v.kind = "Integer" -> "Integer"
      [] v.kind = "Real"    -> "Float"
      [] v.kind = "Text"    -> "Text"
      [] v.kind = "Blob"    -> "Blob"

\* SqliteValue::estimated_byte_size counting the payload only, the tag byte
\* left out
ValueEstimatedByteSizeNoTag(v) ==
    CASE v.kind = "Null"    -> 1
      [] v.kind = "Integer" -> 8
      [] v.kind = "Real"    -> 8
      [] v.kind = "Text"    -> 4 + Len(v.bytes)
      [] v.kind = "Blob"    -> 4 + Len(v.bytes)

\* SqliteValue::estimated_byte_size
ValueEstimatedByteSize(v) ==
    1 + CASE v.kind = "Null"    -> 1
          [] v.kind = "Integer" -> 8
          [] v.kind = "Real"    -> 8
          [] v.kind = "Text"    -> 4 + Len(v.bytes)
          [] v.kind = "Blob"    -> 4 + Len(v.bytes)

\* Change::estimated_byte_size
ChangeEstimatedByteSize(c) ==
    Len(c.table) + Len(c.pk) + Len(c.cid) + ValueEstimatedByteSize(c.val)
      + 8 + 8 + 8 + 16 + 8

(***************************************************************************)
(* Column-type names (lib.rs 284-310).  A name is the sequence of its      *)
(* bytes; a stored text need not be valid UTF-8.                           *)
(***************************************************************************)
NameINTEGER == <<73, 78, 84, 69, 71, 69, 82>>

NameREAL == <<82, 69, 65, 76>>

NameTEXT == <<84, 69, 88, 84>>

NameBLOB == <<66, 76, 79, 66>>

NameINT == <<73, 78, 84>>

\* U+FFFD REPLACEMENT CHARACTER in UTF-8
Replacement == <<239, 191, 189>>

\* String::from_utf8_lossy: each maximal invalid part becomes U+FFFD
RECURSIVE FromUtf8Lossy(_)
FromUtf8Lossy(s) ==
    IF s = <<>> THEN <<>>
    ELSE LET b == s[1]
             need == IF b >= 194 /\ b <= 223 THEN 2
                     ELSE IF b >= 224 /\ b <= 239 THEN 3
                     ELSE IF b >= 240 /\ b <= 244 THEN 4
                     ELSE 0
             lo2 == CASE b = 224 -> 160 [] b = 240 -> 144 [] OTHER -> 128
             hi2 == CASE b = 237 -> 159 [] b = 244 -> 143 [] OTHER -> 191
             ok(i) == /\ i <= Len(s)
                      /\ IF i = 2 THEN s[i] >= lo2 /\ s[i] <= hi2
                                  ELSE s[i] >= 128 /\ s[i] <= 191
             \* the bytes of s that begin a well-formed sequence
             good == CHOOSE k \in 1..4 :
                        /\ \A i \in 2..k : i <= need /\ ok(i)
                        /\ (k + 1 > need \/ ~ok(k + 1))
         IN  IF b < 128 THEN <<b>> \o FromUtf8Lossy(Drop(s, 1))
             ELSE IF need = 0 THEN Replacement \o FromUtf8Lossy(Drop(s, 1))
             ELSE IF good = need THEN Take(s, need) \o FromUtf8Lossy(Drop(s, need))
             ELSE Replacement \o FromUtf8Lossy(Drop(s, good))

\* ColumnType::from_sqlite_name accepting the abbreviation INT as well
FromSqliteNameWithInt(s) ==
    CASE s = NameINTEGER -> "Integer"
      [] s = NameINT     -> "Integer"
      [] s = NameREAL    -> "Float"
      [] s = NameTEXT    -> "Text"
      [] s = NameBLOB    -> "Blob"
      [] OTHER           -> "None"

\* ColumnType::from_sqlite_name; "None" is Option::None
FromSqliteName(s) ==
    CASE s = NameINTEGER -> "Integer"
      [] s = NameREAL    -> "Float"
      [] s = NameTEXT    -> "Text"
      [] s = NameBLOB    -> "Blob"
      [] OTHER           -> "None"

\* <ColumnType as FromSql>::column_result; "InvalidType" is
\* Err(FromSqlError::InvalidType)
ColumnResult(value) ==
    IF value.kind = "Text"
    THEN LET s == FromUtf8Lossy(value.bytes)
         IN  CASE s = NameINTEGER -> "Integer"
               [] s = NameREAL    -> "Float"
               [] s = NameTEXT    -> "Text"
               [] s = NameBLOB    -> "Blob"
               [] OTHER           -> "InvalidType"
    ELSE "InvalidType"

(***************************************************************************)
(* Textual (JSON) decoding of Statement (lib.rs 121-143) and SqliteParam   *)
(* (lib.rs 312-324), both #[serde(untagged)]: the variants are tried in    *)
(* declaration order against the buffered payload and the first that       *)
(* accepts it wins.  A JSON payload is one record shape for every kind:    *)
(* items holds an array's elements, fields an object's <<key, value>>      *)
(* pairs in document order.                                                *)
(***************************************************************************)
JNull == [t |-> "null", b |-> FALSE, n |-> 0, s |-> "", items |-> <<>>, fields |-> <<>>]

JBool(x) == [t |-> "bool", b |-> x, n |-> 0, s |-> "", items |-> <<>>, fields |-> <<>>]

JInt(x) == [t |-> "int", b |-> FALSE, n |-> x, s |-> "", items |-> <<>>, fields |-> <<>>]

\* a number with a fraction, x the number times ten
JFloat(x) == [t |-> "float", b |-> FALSE, n |-> x, s |-> "", items |-> <<>>, fields |-> <<>>]

JStr(x) == [t |-> "string", b |-> FALSE, n |-> 0, s |-> x, items |-> <<>>, fields |-> <<>>]

JArray(xs) == [t |-> "array", b |-> FALSE, n |-> 0, s |-> "", items |-> xs, fields |-> <<>>]

JObject(fs) == [t |-> "object", b |-> FALSE, n |-> 0, s |-> "", items |-> <<>>, fields |-> fs]

\* Option<T>: None is the empty sequence, Some(x) is <<x>>
None == <<>>

Some(x) == <<x>>

NoParam == [kind |-> "Null", of |-> JNull]

\* DecodeParam without the Bool variant
DecodeParamNoBool(j) ==
    CASE j.t = "null"   -> [ok |-> TRUE, v |-> [kind |-> "Null", of |-> j]]
      [] j.t = "int"    -> [ok |-> TRUE, v |-> [kind |-> "Integer", of |-> j]]
      [] j.t = "float"  -> [ok |-> TRUE, v |-> [kind |-> "Real", of |-> j]]
      [] j.t = "string" -> [ok |-> TRUE, v |-> [kind |-> "Text", of |-> j]]
      [] OTHER          -> [ok |-> FALSE, v |-> NoParam]

\* SqliteParam, untagged: Null, Bool, Integer, Real, Text, Blob, Json in that
\* order.  Blob takes a sequence of u8.  Json (Box<RawValue>) accepts nothing
\* that comes out of the buffer an untagged enum decodes from.
DecodeParam(j) ==
    CASE j.t = "null"   -> [ok |-> TRUE, v |-> [kind |-> "Null", of |-> j]]
      [] j.t = "bool"   -> [ok |-> TRUE, v |-> [kind |-> "Bool", of |-> j]]
      [] j.t = "int"    -> [ok |-> TRUE, v |-> [kind |-> "Integer", of |-> j]]
      [] j.t = "float"  -> [ok |-> TRUE, v |-> [kind |-> "Real", of |-> j]]
      [] j.t = "string" -> [ok |-> TRUE, v |-> [kind |-> "Text", of |-> j]]
      [] j.t = "array"  ->
           IF \A i \in 1..Len(j.items) :
                 /\ j.items[i].t = "int"
                 /\ j.items[i].n >= 0
                 /\ j.items[i].n <= 255
           THEN [ok |-> TRUE, v |-> [kind |-> "Blob", of |-> j]]
           ELSE [ok |-> FALSE, v |-> NoParam]
      [] OTHER          -> [ok |-> FALSE, v |-> NoParam]

\* Vec<SqliteParam> from an array: every element must decode
DecodeParamVec(j) ==
    IF j.t = "array" /\ \A i \in 1..Len(j.items) : DecodeParam(j.items[i]).ok
    THEN Some([i \in 1..Len(j.items) |-> DecodeParam(j.items[i]).v])
    ELSE None

\* HashMap<String, SqliteParam> from an object: every value must decode; of two
\* entries with one key the later stays
DecodeParamMap(j) ==
    IF j.t = "object" /\ \A i \in 1..Len(j.fields) : DecodeParam(j.fields[i][2]).ok
    THEN LET keys == {j.fields[i][1] : i \in 1..Len(j.fields)}
             last(k) == CHOOSE i \in 1..Len(j.fields) :
                           /\ j.fields[i][1] = k
                           /\ \A i2 \in 1..Len(j.fields) : j.fields[i2][1] = k => i2 <= i
         IN  Some([k \in keys |-> DecodeParam(j.fields[last(k)][2]).v])
    ELSE None

\* the positions of an object's entries with key k
FieldAt(j, k) == {i \in 1..Len(j.fields) : j.fields[i][1] = k}

NoStatement == [ok |-> FALSE]

\* Statement::Verbose { query, params, named_params } from an object (a struct
\* variant of an untagged enum is read from a map only): `query` is required,
\* the two Option fields are None when absent or null, unknown fields are
\* skipped, a field given twice is an error
TryVerbose(j) ==
    IF j.t # "object" THEN NoStatement
    ELSE LET q  == FieldAt(j, "query")
             p  == FieldAt(j, "params")
             np == FieldAt(j, "named_params")
             pv  == IF p = {} THEN JNull ELSE j.fields[CHOOSE i \in p : TRUE][2]
             npv == IF np = {} THEN JNull ELSE j.fields[CHOOSE i \in np : TRUE][2]
         IN  IF \/ Cardinality(q) # 1
                \/ Cardinality(p) > 1
                \/ Cardinality(np) > 1
             THEN NoStatement
             ELSE IF j.fields[CHOOSE i \in q : TRUE][2].t # "string" THEN NoStatement
             ELSE IF pv.t # "null" /\ DecodeParamVec(pv) = None THEN NoStatement
             ELSE IF npv.t # "null" /\ DecodeParamMap(npv) = None THEN NoStatement
             ELSE [ok |-> TRUE, variant |-> "Verbose",
                   query |-> j.fields[CHOOSE i \in q : TRUE][2].s,
                   params |-> IF pv.t = "null" THEN None ELSE Some(DecodeParamVec(pv)[1]),
                   named_params |-> IF npv.t = "null" THEN None
                                    ELSE Some(DecodeParamMap(npv)[1])]

\* Statement::Simple(String)
TrySimple(j) ==
    IF j.t # "string" THEN NoStatement
    ELSE [ok |-> TRUE, variant |-> "Simple", query |-> j.s,
          params |-> None, named_params |-> None]

\* Statement::WithParams(String, Vec<SqliteParam>): a sequence of exactly two
TryWithParams(j) ==
    IF j.t # "array" \/ Len(j.items) # 2 THEN NoStatement
    ELSE IF j.items[1].t # "string" THEN NoStatement
    ELSE IF DecodeParamVec(j.items[2]) = None THEN NoStatement
    ELSE [ok |-> TRUE, variant |-> "WithParams", query |-> j.items[1].s,
          params |-> DecodeParamVec(j.items[2]), named_params |-> None]

\* Statement::WithNamedParams(String, HashMap<String, SqliteParam>)
TryWithNamedParams(j) ==
    IF j.t # "array" \/ Len(j.items) # 2 THEN NoStatement
    ELSE IF j.items[1].t # "string" THEN NoStatement
    ELSE IF DecodeParamMap(j.items[2]) = None THEN NoStatement
    ELSE [ok |-> TRUE, variant |-> "WithNamedParams", query |-> j.items[1].s,
          params |-> None, named_params |-> DecodeParamMap(j.items[2])]

\* the untagged enum: Verbose, Simple, WithParams, WithNamedParams, in that order
DecodeStatement(j) ==
    IF TryVerbose(j).ok THEN TryVerbose(j)
    ELSE IF TrySimple(j).ok THEN TrySimple(j)
    ELSE IF TryWithParams(j).ok THEN TryWithParams(j)
    ELSE IF TryWithNamedParams(j).ok THEN TryWithNamedParams(j)
    ELSE NoStatement

\* Statement::query
StatementQuery(st) == st.query

(***************************************************************************)
(* The inputs the operations are applied to.                               *)
(***************************************************************************)
\* i64: 0, 1, -1, i64::MIN, i64::MAX, 0x0102030405060708
I64Samples ==
    { Zero64, <<0, 0, 0, 1>>, <<65535, 65535, 65535, 65535>>, <<32768, 0, 0, 0>>,
      <<32767, 65535, 65535, 65535>>, <<258, 772, 1286, 1800>> }

\* f64 bit patterns: 0.0, -0.0, 1.0, -1.5, +inf, NaN, NaN with another payload,
\* NaN with the sign set, the least subnormal, a subnormal whose doubling carries
F64Samples ==
    { Zero64, <<32768, 0, 0, 0>>, <<16368, 0, 0, 0>>, <<49144, 0, 0, 0>>,
      <<32752, 0, 0, 0>>, <<32760, 0, 0, 0>>, <<32760, 0, 0, 1>>,
      <<65528, 0, 0, 0>>, <<0, 0, 0, 1>>, <<0, 0, 32768, 0>> }

\* the bytes of "A" and of "é"
TextBytes == {65, 195, 169}

BlobBytes == {0, 65, 255}

TextSamples == {s \in SeqsUpTo(TextBytes, MaxLen) : ValidUtf8(s)}

BlobSamples == SeqsUpTo(BlobBytes, MaxLen)

Values ==
    {Null} \cup {Integer(i) : i \in I64Samples} \cup {Real(f) : f \in F64Samples}
           \cup {Text(s) : s \in TextSamples} \cup {Blob(b) : b \in BlobSamples}

\* "t", "us"
TableSamples == {<<116>>, <<117, 115>>}

PkSamples == {<<>>, <<1>>}

\* "", "n"
ColumnSamples == {<<>>, <<110>>}

SiteSamples ==
    { [i \in 1..16 |-> 0], [i \in 1..16 |-> i] }

Changes ==
    [ table : TableSamples, pk : PkSamples, cid : ColumnSamples, val : Values,
      col_version : {<<0, 0, 0, 1>>, <<32768, 0, 0, 0>>},
      db_version : {<<0, 0, 0, 10>>},
      seq : {Zero64, <<0, 0, 0, 2>>},
      site_id : SiteSamples,
      cl : {<<0, 0, 0, 1>>, <<0, 0, 0, 3>>} ]

\* Change::default()
DefaultChange ==
    [ table |-> <<>>, pk |-> <<>>, cid |-> <<>>, val |-> Null,
      col_version |-> Zero64, db_version |-> Zero64, seq |-> Zero64,
      site_id |-> [i \in 1..16 |-> 0], cl |-> Zero64 ]

\* the changes that are compared with one another
ComparedChanges ==
    { [DefaultChange EXCEPT !.val = v, !.cl = c] : v \in Values, c \in {Zero64, <<0, 0, 0, 1>>} }

\* buffers that did not come from the encoder: a tag byte and a body
TagSamples == {0, 1, 2, 3, 4, 5, 255}

RawBytes == {0, 1, 65, 195, 255}

RawInputs ==
    {<<>>} \cup {<<t>> \o b : t \in TagSamples, b \in SeqsUpTo(RawBytes, MaxRawBody)}

\* JSON payloads
ParamSamples ==
    { JInt(1), JStr("encodedID"), JBool(TRUE), JNull, JArray(<<JInt(1)>>) }

ParamLists == {JArray(ps) : ps \in SeqsUpTo(ParamSamples, MaxParams)}

NamedSamples ==
    {JObject(fs) : fs \in SeqsUpTo({<<k, JInt(1)>> : k \in {"id", "name"}}
                                      \cup {<<"id", JStr("x")>>, <<"id", JObject(<<>>)>>},
                                   MaxParams)}

QuerySamples == {"some statement", ""}

VerboseFields ==
    { <<>>, <<<<"query", JStr("some statement")>>>>, <<<<"query", JInt(1)>>>>,
      <<<<"query", JStr("")>>, <<"extra", JBool(TRUE)>>>>,
      <<<<"query", JStr("a")>>, <<"query", JStr("b")>>>> }

StatementInputs ==
    {JStr(q) : q \in QuerySamples}
      \cup {JArray(<<JStr(q), a>>) : q \in QuerySamples, a \in ParamLists \cup NamedSamples}
      \cup {JObject(f \o p \o np) :
              f \in VerboseFields,
              p \in {<<>>} \cup {<<<<"params", a>>>> : a \in ParamLists \cup {JNull, JInt(1)}},
              np \in {<<>>} \cup {<<<<"named_params", a>>>> : a \in NamedSamples \cup {JNull}}}
      \cup { JInt(1), JNull, JArray(<<>>), JArray(<<JStr("q")>>),
             JArray(<<JInt(1), JArray(<<>>)>>),
             JArray(<<JStr("q"), JStr("p")>>),
             JArray(<<JStr("q"), JArray(<<JObject(<<>>)>>)>>),
             JArray(<<JStr("q"), JArray(<<>>), JObject(<<>>)>>) }

(***************************************************************************)
(* The catalog synchronizer (sync.rs): catalog entries, their hashes, the  *)
(* diff of a catalog against the known hashes, and the statements that a   *)
(* diff is turned into.  A string is the sequence of its bytes.            *)
(***************************************************************************)
\* consul_client::AgentService, as tests::basic_operations builds one
AgentService(id, name, port) ==
    [id |-> id, name |-> name, tags |-> <<>>, meta |-> <<>>, port |-> port,
     address |-> <<49, 50, 55>>]

\* consul_client::AgentCheck; notes is an Option
AgentCheck(id, service_id, service_name, status, output, notes) ==
    [id |-> id, name |-> <<99, 104, 107>>, status |-> status, output |-> output,
     service_id |-> service_id, service_name |-> service_name, notes |-> notes]

\* ConsulCheckStatus::as_str
StatusAsStr(status) ==
    CASE status = "Passing"  -> <<112, 97, 115, 115, 105, 110, 103>>
      [] status = "Warning"  -> <<119, 97, 114, 110, 105, 110, 103>>
      [] status = "Critical" -> <<99, 114, 105, 116, 105, 99, 97, 108>>

\* a notes text that is the JSON of a ConsulCheckNotesDirectives, and one
\* that is not
Directives(hash_include) == [directives |-> TRUE, hash_include |-> hash_include]

NotDirectives == [directives |-> FALSE, hash_include |-> <<>>]

\* serde_json::from_str::<ConsulCheckNotesDirectives>(notes).ok()
ParseDirectives(text) ==
    IF text.directives THEN Some(text.hash_include) ELSE None

\* the digest of the bytes fed to a seahash::SeaHasher, as 16 bits: all the
\* synchronizer relies on is that equal input gives equal output
RECURSIVE SeaHashFold(_, _)
SeaHashFold(h, bytes) ==
    IF bytes = <<>> THEN h
    ELSE SeaHashFold((h * 31 + Head(bytes)) % 65536, Tail(bytes))

SeaHash(bytes) == SeaHashFold(7, bytes)

\* what #[derive(Hash)] feeds for a str, and for the length of a collection
HashStr(s) == s \o <<255>>

HashLen(n) == <<n % 256, n \div 256, 0, 0, 0, 0, 0, 0>>

RECURSIVE HashStrs(_)
HashStrs(l) == IF l = <<>> THEN <<>> ELSE HashStr(Head(l)) \o HashStrs(Tail(l))

\* svc.hash(&mut hasher): the fields in declaration order
ServiceHashInput(svc) ==
    HashStr(svc.id) \o HashStr(svc.name)
      \o HashLen(Len(svc.tags)) \o HashStrs(svc.tags)
      \o HashLen(Len(svc.meta)) \o HashStrs(svc.meta)
      \o <<svc.port % 256, svc.port \div 256>>
      \o HashStr(svc.address)

hash_service(svc) == SeaHash(ServiceHashInput(svc))

\* the writes of the loop over notes.hash_include
RECURSIVE HashIncluded(_, _)
HashIncluded(fields, check) ==
    IF fields = <<>> THEN <<>>
    ELSE (IF Head(fields) = "Status" THEN StatusAsStr(check.status) ELSE check.output)
           \o HashIncluded(Tail(fields), check)

\* every hasher.write of hash_check, in order
CheckHashInput(check) ==
    LET directives == IF check.notes = None THEN None
                      ELSE ParseDirectives(check.notes[1])
    IN  check.service_name \o check.service_id
          \o (IF directives # None THEN HashIncluded(directives[1], check)
              ELSE StatusAsStr(check.status))

hash_check(check) == SeaHash(CheckHashInput(check))

\* the order in which a HashMap hands out its keys: some order, each key once
RECURSIVE Iter(_)
Iter(S) ==
    IF S = {} THEN <<>>
    ELSE LET k == CHOOSE k \in S : TRUE IN <<k>> \o Iter(S \ {k})

\* ConsulServiceOp / ConsulCheckOp; entry and hash are those of an Upsert
UpsertOp(entry, hash) == [op |-> "Upsert", id |-> entry.id, entry |-> Some(entry), hash |-> hash]

DeleteOp(id) == [op |-> "Delete", id |-> id, entry |-> None, hash |-> 0]

\* the loop of update_services over hashes.iter()
RECURSIVE ServiceOpsOfHashes(_, _, _, _)
ServiceOpsOfHashes(ids, services, hashes, skip_hash_check) ==
    IF ids = <<>> THEN <<>>
    ELSE LET id == Head(ids)
             rest == ServiceOpsOfHashes(Tail(ids), services, hashes, skip_hash_check)
         IN  IF id \in DOMAIN services
             THEN LET hash == hash_service(services[id])
                  IN  IF skip_hash_check \/ hashes[id] # hash
                      THEN <<UpsertOp(services[id], hash)>> \o rest
                      ELSE rest
             ELSE <<DeleteOp(id)>> \o rest

\* the loop of update_services over what services.remove left
RECURSIVE ServiceOpsOfNew(_, _)
ServiceOpsOfNew(ids, services) ==
    IF ids = <<>> THEN <<>>
    ELSE <<UpsertOp(services[Head(ids)], hash_service(services[Head(ids)]))>>
           \o ServiceOpsOfNew(Tail(ids), services)

\* update_services that forgets the ids the catalog no longer has
update_services_no_delete(services, hashes, skip_hash_check) ==
    ServiceOpsOfHashes(Iter(DOMAIN hashes \cap DOMAIN services), services, hashes,
                       skip_hash_check)
      \o ServiceOpsOfNew(Iter(DOMAIN services \ DOMAIN hashes), services)

update_services(services, hashes, skip_hash_check) ==
    ServiceOpsOfHashes(Iter(DOMAIN hashes), services, hashes, skip_hash_check)
      \o ServiceOpsOfNew(Iter(DOMAIN services \ DOMAIN hashes), services)

\* the loop of update_checks over hashes.iter()
RECURSIVE CheckOpsOfHashes(_, _, _, _)
CheckOpsOfHashes(ids, checks, hashes, skip_hash_check) ==
    IF ids = <<>> THEN <<>>
    ELSE LET id == Head(ids)
             rest == CheckOpsOfHashes(Tail(ids), checks, hashes, skip_hash_check)
         IN  IF id \in DOMAIN checks
             THEN LET hash == hash_check(checks[id])
                  IN  IF skip_hash_check \/ hashes[id] # hash
                      THEN <<UpsertOp(checks[id], hash)>> \o rest
                      ELSE rest
             ELSE <<DeleteOp(id)>> \o rest

\* the loop of update_checks over what checks.remove left
RECURSIVE CheckOpsOfNew(_, _)
CheckOpsOfNew(ids, checks) ==
    IF ids = <<>> THEN <<>>
    ELSE <<UpsertOp(checks[Head(ids)], hash_check(checks[Head(ids)]))>>
           \o CheckOpsOfNew(Tail(ids), checks)

\* update_checks that takes every known check for a changed one
update_checks_skipping(checks, hashes, skip_hash_check) ==
    CheckOpsOfHashes(Iter(DOMAIN hashes), checks, hashes, TRUE)
      \o CheckOpsOfNew(Iter(DOMAIN checks \ DOMAIN hashes), checks)

update_checks(checks, hashes, skip_hash_check) ==
    CheckOpsOfHashes(Iter(DOMAIN hashes), checks, hashes, skip_hash_check)
      \o CheckOpsOfNew(Iter(DOMAIN checks \ DOMAIN hashes), checks)

\* catalogs and hash maps handed to the diff
ServiceIds == {<<115, 49>>, <<115, 50>>, <<115, 51>>}

ServiceSamples ==
    {AgentService(id, <<119, 101, 98>>, port) : id \in ServiceIds, port \in {80, 1337}}

CheckIds == {<<99, 49>>, <<99, 50>>}

CheckSamples ==
    {AgentCheck(id, <<115, 49>>, <<119, 101, 98>>, st[1], <<>>, st[2]) :
        id \in CheckIds,
        st \in {<<"Passing", None>>, <<"Critical", None>>,
                <<"Passing", Some(Directives(<<"Status", "Output">>))>>}}

\* the notes a check can carry: none, a text that is not the JSON of
\* directives, and directives with each list of the two fields
NotesSamples ==
    {None, Some(NotDirectives)}
      \cup {Some(Directives(l)) : l \in {<<>>, <<"Status">>, <<"Output">>,
                                          <<"Status", "Output">>, <<"Output", "Status">>}}

\* one check id as the catalog shows it at two pulls: of the service web with
\* the id 1 or 2, or of the service we with the id b1
KnownCheckSamples ==
    {AgentCheck(<<99, 49>>, svc[2], svc[1], status, output, notes) :
        svc \in {<<<<119, 101, 98>>, <<49>>>>, <<<<119, 101, 98>>, <<50>>>>,
                 <<<<119, 101>>, <<98, 49>>>>},
        status \in {"Passing", "Critical"},
        output \in {<<>>, <<120>>},
        notes \in NotesSamples}

\* the maps from some of the ids to an entry that carries the id it is keyed by
Catalogs(ids, entries) ==
    UNION {{f \in [D -> entries] : \A k \in D : f[k].id = k} : D \in SUBSET ids}

HashMaps(ids, hashes) == UNION {[D -> hashes] : D \in SUBSET ids}

ServiceHashSamples == {hash_service(svc) : svc \in ServiceSamples} \cup {0}

CheckHashSamples == {hash_check(check) : check \in CheckSamples} \cup {0}

\* stored values whose column-type name is looked up
NameSamples ==
    { NameINTEGER, NameREAL, NameTEXT, NameBLOB, NameINT, <<>>,
      <<105, 110, 116, 101, 103, 101, 114>>, <<84, 69, 88, 84, 32>>,
      <<78, 85, 76, 76>>, <<70, 76, 79, 65, 84>>,
      <<84, 69, 88, 84, 255>>, <<195>>, <<224, 160>>, <<240, 144, 128, 84>>,
      <<195, 169>> }

StoredSamples ==
    {Text(n) : n \in NameSamples} \cup {Blob(n) : n \in {NameTEXT, <<>>}}
      \cup {Null, Integer(<<0, 0, 0, 3>>), Real(Zero64)}

(***************************************************************************)
(* The state machine: one operation of the library is applied to an input  *)
(* and its result recorded; Return takes the result away.                  *)
(***************************************************************************)
NoCmp == [eq |-> FALSE, ha |-> <<>>, hb |-> <<>>]

LibInit ==
    /\ pc = "idle"
    /\ val = Null
    /\ rhs = Null
    /\ chg = DefaultChange
    /\ rchg = DefaultChange
    /\ wire = <<>>
    /\ out = Err
    /\ size = 0
    /\ cmp = NoCmp
    /\ ctype = "None"
    /\ code = 0
    /\ json = JNull
    /\ stmt = NoStatement
    /\ ctypeName = "None"
    /\ dcat = <<>>
    /\ dhashes = <<>>
    /\ dskip = FALSE
    /\ dops = <<>>
    /\ dprev = <<>>

\* v.write_to(writer), with the size bytes_needed announces for it
WriteValueStep ==
    /\ pc = "idle"
    /\ \E v \in Values :
         /\ val' = v
         /\ wire' = WriteValue(v)
         /\ size' = BytesNeeded(v)
    /\ pc' = "value_written"
    /\ UNCHANGED <<rhs, chg, rchg, out, cmp, ctype, code, json, stmt>>
    /\ UNCHANGED otherVars

\* bytes arrive that this encoder did not write
Receive ==
    /\ pc = "idle"
    /\ \E raw \in RawInputs : wire' = raw
    /\ pc' = "received"
    /\ UNCHANGED <<val, rhs, chg, rchg, out, size, cmp, ctype, code, json, stmt>>
    /\ UNCHANGED otherVars

\* SqliteValue::read_from(reader) on the buffer
ReadValueStep ==
    /\ pc \in {"value_written", "received"}
    /\ \E o \in ReadValue(wire) : out' = o
    /\ pc' = IF pc = "value_written" THEN "value_read" ELSE "raw_read"
    /\ UNCHANGED <<val, rhs, chg, rchg, wire, size, cmp, ctype, code, json, stmt>>
    /\ UNCHANGED otherVars

\* Change::write_to
WriteChangeStep ==
    /\ pc = "idle"
    /\ \E c \in Changes :
         /\ chg' = c
         /\ wire' = WriteChange(c)
    /\ pc' = "change_written"
    /\ UNCHANGED <<val, rhs, rchg, out, size, cmp, ctype, code, json, stmt>>
    /\ UNCHANGED otherVars

\* Change::read_from
ReadChangeStep ==
    /\ pc = "change_written"
    /\ \E o \in ReadChange(wire) : out' = o
    /\ pc' = "change_read"
    /\ UNCHANGED <<val, rhs, chg, rchg, wire, size, cmp, ctype, code, json, stmt>>
    /\ UNCHANGED otherVars

\* a == b on two values, and what each feeds to a hasher
CompareStep ==
    /\ pc = "idle"
    /\ \E a \in Values, b \in Values :
         /\ val' = a
         /\ rhs' = b
         /\ cmp' = [eq |-> ValueEq(a, b), ha |-> ValueHash(a), hb |-> ValueHash(b)]
    /\ pc' = "compared"
    /\ UNCHANGED <<chg, rchg, wire, out, size, ctype, code, json, stmt>>
    /\ UNCHANGED otherVars

\* a == b on two changes (Change has no Hash)
CompareChangeStep ==
    /\ pc = "idle"
    /\ \E a \in ComparedChanges, b \in ComparedChanges :
         /\ chg' = a
         /\ rchg' = b
         /\ cmp' = [eq |-> ChangeEq(a, b), ha |-> <<>>, hb |-> <<>>]
    /\ pc' = "changes_compared"
    /\ UNCHANGED <<val, rhs, wire, out, size, ctype, code, json, stmt>>
    /\ UNCHANGED otherVars

\* v.column_type() and the discriminant of the result
ColumnTypeStep ==
    /\ pc = "idle"
    /\ \E v \in Values :
         /\ val' = v
         /\ ctype' = ColumnTypeOf(v)
         /\ code' = ColumnTypeCode(ColumnTypeOf(v))
    /\ pc' = "column_type"
    /\ UNCHANGED <<rhs, chg, rchg, wire, out, size, cmp, json, stmt>>
    /\ UNCHANGED otherVars

\* ColumnType::from_u8(u)
FromU8Step ==
    /\ pc = "idle"
    /\ \E u \in 0..255 :
         /\ code' = u
         /\ ctype' = FromU8(u)
    /\ pc' = "from_u8"
    /\ UNCHANGED <<val, rhs, chg, rchg, wire, out, size, cmp, json, stmt>>
    /\ UNCHANGED otherVars

\* serde_json::from_str::<Statement>(payload)
DecodeStatementStep ==
    /\ pc = "idle"
    /\ \E j \in StatementInputs :
         /\ json' = j
         /\ stmt' = DecodeStatement(j)
    /\ pc' = "statement_decoded"
    /\ UNCHANGED <<val, rhs, chg, rchg, wire, out, size, cmp, ctype, code>>
    /\ UNCHANGED otherVars

\* c.estimated_byte_size()
EstimateStep ==
    /\ pc = "idle"
    /\ \E c \in Changes :
         /\ chg' = c
         /\ size' = ChangeEstimatedByteSize(c)
    /\ pc' = "estimated"
    /\ UNCHANGED <<val, rhs, rchg, wire, out, cmp, ctype, code, json, stmt>>
    /\ UNCHANGED otherVars

\* the column type named by a stored value: ColumnType::column_result(value),
\* and ColumnType::from_sqlite_name(s) where the value is a text that is a str
ColumnNameStep ==
    /\ pc = "idle"
    /\ \E v \in StoredSamples :
         /\ val' = v
         /\ ctype' = ColumnResult(v)
         /\ ctypeName' = IF v.kind = "Text" /\ ValidUtf8(v.bytes)
                          THEN FromSqliteName(v.bytes)
                          ELSE "None"
    /\ pc' = "column_name"
    /\ UNCHANGED <<rhs, chg, rchg, wire, out, size, cmp, code, json, stmt>>
    /\ UNCHANGED <<dcat, dhashes, dskip, dops, dprev, syncVars, subVars>>

\* update_services(services, hashes, skip_hash_check)
UpdateServicesStep ==
    /\ pc = "idle"
    /\ \E services \in Catalogs(ServiceIds, ServiceSamples),
          hashes \in HashMaps(ServiceIds, ServiceHashSamples),
          skip_hash_check \in BOOLEAN :
         /\ dcat' = services
         /\ dhashes' = hashes
         /\ dskip' = skip_hash_check
         /\ dops' = update_services(services, hashes, skip_hash_check)
    /\ pc' = "services_diffed"
    /\ UNCHANGED <<val, rhs, chg, rchg, wire, out, size, cmp, ctype, code, json, stmt>>
    /\ UNCHANGED <<ctypeName, dprev, syncVars, subVars>>

\* update_checks(checks, hashes, skip_hash_check)
UpdateChecksStep ==
    /\ pc = "idle"
    /\ \E checks \in Catalogs(CheckIds, CheckSamples),
          hashes \in HashMaps(CheckIds, CheckHashSamples),
          skip_hash_check \in BOOLEAN :
         /\ dcat' = checks
         /\ dhashes' = hashes
         /\ dskip' = skip_hash_check
         /\ dops' = update_checks(checks, hashes, skip_hash_check)
    /\ pc' = "checks_diffed"
    /\ UNCHANGED <<val, rhs, chg, rchg, wire, out, size, cmp, ctype, code, json, stmt>>
    /\ UNCHANGED <<ctypeName, dprev, syncVars, subVars>>

\* update_checks(checks, hashes, false) for a check whose hash the map holds
\* from the catalog of an earlier pull, as execute left it there
UpdateKnownCheckStep ==
    /\ pc = "idle"
    /\ \E old \in KnownCheckSamples, new \in KnownCheckSamples :
         LET checks == [id \in {new.id} |-> new]
             hashes == [id \in {old.id} |-> hash_check(old)]
         IN  /\ dprev' = [id \in {old.id} |-> old]
             /\ dcat' = checks
             /\ dhashes' = hashes
             /\ dskip' = FALSE
             /\ dops' = update_checks(checks, hashes, FALSE)
    /\ pc' = "known_check_diffed"
    /\ UNCHANGED <<val, rhs, chg, rchg, wire, out, size, cmp, ctype, code, json, stmt>>
    /\ UNCHANGED <<ctypeName, syncVars, subVars>>

\* the caller takes the result
Return ==
    /\ pc \in {"value_read", "raw_read", "change_read", "compared", "changes_compared",
               "column_type", "from_u8", "statement_decoded", "estimated", "column_name",
               "services_diffed", "checks_diffed", "known_check_diffed"}
    /\ pc' = "idle"
    /\ val' = Null
    /\ rhs' = Null
    /\ chg' = DefaultChange
    /\ rchg' = DefaultChange
    /\ wire' = <<>>
    /\ out' = Err
    /\ size' = 0
    /\ cmp' = NoCmp
    /\ ctype' = "None"
    /\ code' = 0
    /\ json' = JNull
    /\ stmt' = NoStatement
    /\ ctypeName' = "None"
    /\ dcat' = <<>>
    /\ dhashes' = <<>>
    /\ dskip' = FALSE
    /\ dops' = <<>>
    /\ dprev' = <<>>
    /\ UNCHANGED <<syncVars, subVars>>

Next ==
    \/ WriteValueStep
    \/ Receive
    \/ ReadValueStep
    \/ WriteChangeStep
    \/ ReadChangeStep
    \/ CompareStep
    \/ CompareChangeStep
    \/ ColumnTypeStep
    \/ FromU8Step
    \/ DecodeStatementStep
    \/ EstimateStep
    \/ ColumnNameStep
    \/ UpdateServicesStep
    \/ UpdateChecksStep
    \/ UpdateKnownCheckStep
    \/ Return

(***************************************************************************)
(* The catalog synchronizer's pull loop (sync.rs 20-117, 408-558) against  *)
(* a catalog that changes and a store that executes statement batches.     *)
(***************************************************************************)
\* how many statements the store answers with an Error result, over a run
MaxStatementErrors == 1

EmptyMap == [k \in {} |-> 0]

\* HashMap::insert and HashMap::remove
Insert(map, k, v) == [x \in DOMAIN map \cup {k} |-> IF x = k THEN v ELSE map[x]]

Remove(map, k) == [x \in DOMAIN map \ {k} |-> map[x]]

\* u64::to_be_bytes and u64::from_be_bytes, of a digest of 16 bits
ToBeBytes(hash) == <<0, 0, 0, 0, 0, 0, hash \div 256, hash % 256>>

FromBeBytes(bytes) == bytes[7] * 256 + bytes[8]

\* the statements of a batch: the table, the row's id, and the hash or the
\* columns that an INSERT carries (node and updated_at are left out: one node,
\* and no claim reads the time)
InsertHash(table, id, hash) ==
    [sql |-> "INSERT", table |-> table, id |-> id, hash |-> ToBeBytes(hash), row |-> None]

InsertRow(table, entry) ==
    [sql |-> "INSERT", table |-> table, id |-> entry.id, hash |-> <<>>, row |-> Some(entry)]

DeleteFrom(table, id) ==
    [sql |-> "DELETE", table |-> table, id |-> id, hash |-> <<>>, row |-> None]

append_upsert_service_statements(svc, hash) ==
    <<InsertHash("__corro_consul_services", svc.id, hash), InsertRow("consul_services", svc)>>

append_upsert_check_statements(check, hash) ==
    <<InsertHash("__corro_consul_checks", check.id, hash), InsertRow("consul_checks", check)>>

\* the statements execute builds for the service ops
RECURSIVE ServiceStatements(_)
ServiceStatements(svcs) ==
    IF svcs = <<>> THEN <<>>
    ELSE LET op == Head(svcs)
         IN  (IF op.op = "Upsert"
              THEN append_upsert_service_statements(op.entry[1], op.hash)
              ELSE <<DeleteFrom("__corro_consul_services", op.id),
                     DeleteFrom("consul_services", op.id)>>)
               \o ServiceStatements(Tail(svcs))

\* the statements execute builds for the check ops
RECURSIVE CheckStatements(_)
CheckStatements(checks) ==
    IF checks = <<>> THEN <<>>
    ELSE LET op == Head(checks)
         IN  (IF op.op = "Upsert"
              THEN append_upsert_check_statements(op.entry[1], op.hash)
              ELSE <<DeleteFrom("__corro_consul_checks", op.id),
                     DeleteFrom("consul_checks", op.id)>>)
               \o CheckStatements(Tail(checks))

\* svc_to_upsert / check_to_upsert inserted into the hash map
RECURSIVE InsertUpserts(_, _)
InsertUpserts(hashes, ops) ==
    IF ops = <<>> THEN hashes
    ELSE InsertUpserts(IF Head(ops).op = "Upsert"
                       THEN Insert(hashes, Head(ops).id, Head(ops).hash)
                       ELSE hashes,
                       Tail(ops))

\* svc_to_delete / check_to_delete removed from the hash map
RECURSIVE RemoveDeletes(_, _)
RemoveDeletes(hashes, ops) ==
    IF ops = <<>> THEN hashes
    ELSE RemoveDeletes(IF Head(ops).op = "Delete" THEN Remove(hashes, Head(ops).id)
                       ELSE hashes,
                       Tail(ops))

\* execute that updates the hash map before it submits the batch
HashesAfterSubmitErrorUpdated(hashes, ops) == RemoveDeletes(InsertUpserts(hashes, ops), ops)

\* the hash map when corrosion.execute fails: the ? returns before the map
\* is touched
HashesAfterSubmitError(hashes, ops) == hashes

\* execute that drops the upserted hashes
HashesAfterExecuteNoInsert(hashes, ops) == RemoveDeletes(hashes, ops)

\* the hash map when execute returns Ok
HashesAfterExecute(hashes, ops) == RemoveDeletes(InsertUpserts(hashes, ops), ops)

\* the ApplyStats execute returns for the ops of one kind
Stats(ops) ==
    [upserted |-> Cardinality({i \in 1..Len(ops) : ops[i].op = "Upsert"}),
     deleted  |-> Cardinality({i \in 1..Len(ops) : ops[i].op = "Delete"})]

ZeroStats == [upserted |-> 0, deleted |-> 0]

\* the four tables of the store, each a map from the row's id
Tables == {"__corro_consul_services", "consul_services", "__corro_consul_checks", "consul_checks"}

EmptyStore == [t \in Tables |-> EmptyMap]

\* the store executing one statement
ApplyStatement(st, statement) ==
    IF statement.sql = "INSERT"
    THEN [st EXCEPT ![statement.table] =
            Insert(@, statement.id,
                   IF statement.row = None THEN statement.hash ELSE statement.row[1])]
    ELSE [st EXCEPT ![statement.table] = Remove(@, statement.id)]

\* the store executing a batch: a statement answered with Error has no effect
\* and the statements after it are still executed
RECURSIVE ApplyBatch(_, _, _)
ApplyBatch(st, statements, results) ==
    IF statements = <<>> THEN st
    ELSE ApplyBatch(IF Head(results) = "Execute" THEN ApplyStatement(st, Head(statements))
                    ELSE st,
                    Tail(statements), Tail(results))

\* ExecResponse.results for a batch, with at most n Error results
BatchResults(statements, n) ==
    {r \in [1..Len(statements) -> {"Execute", "Error"}] :
        Cardinality({i \in 1..Len(statements) : r[i] = "Error"}) <= n}

\* the hash maps as run reads them from the store's hash tables
LoadHashes(table) == [id \in DOMAIN table |-> FromBeBytes(table[id])]

\* the catalog of the pull loop
SyncServiceIds == {<<115, 49>>}

SyncCheckIds == {<<99, 49>>}

SyncServices == {svc \in ServiceSamples : svc.id \in SyncServiceIds}

SyncChecks == {check \in CheckSamples : check.id \in SyncCheckIds /\ check.notes = None}

\* the outcome of timeout(5 s, consul.agent_services()) and of the same for checks
FetchOutcomes == {"ok", "error", "timeout"}

\* what a pull did: how update_consul returned, the statements it submitted,
\* the Error results among the store's answers, the ApplyStats returned, and
\* whether the catalog was as the last pull that returned Ok had left it, and
\* whether the catalog and the failures had come to rest
NoPull == [result |-> "none", submitted |-> 0, errors |-> 0,
           svc_stats |-> ZeroStats, check_stats |-> ZeroStats, unchanged |-> FALSE,
           quiet |-> FALSE]

SyncInit ==
    /\ consulServices = EmptyMap
    /\ consulChecks = EmptyMap
    /\ store = EmptyStore
    /\ serviceHashes = LoadHashes(EmptyStore["__corro_consul_services"])
    /\ checkHashes = LoadHashes(EmptyStore["__corro_consul_checks"])
    /\ loop = "running"
    /\ tick = FALSE
    /\ quiet = FALSE
    /\ errorCount = 0
    /\ lastPull = NoPull
    /\ sinceSync = "never"

\* a service is registered, re-registered with another port, or deregistered
ServiceChange ==
    /\ ~quiet
    /\ \/ \E svc \in SyncServices :
            /\ IF svc.id \in DOMAIN consulServices THEN consulServices[svc.id] # svc
                                                   ELSE TRUE
            /\ consulServices' = Insert(consulServices, svc.id, svc)
       \/ \E id \in DOMAIN consulServices : consulServices' = Remove(consulServices, id)
    /\ sinceSync' = IF sinceSync = "clean" THEN "changed" ELSE sinceSync
    /\ UNCHANGED <<consulChecks, serviceHashes, checkHashes, store, loop, tick, quiet,
                   errorCount, lastPull>>
    /\ UNCHANGED <<libVars, subVars>>

\* a check is registered, changes its status, or is deregistered
CheckChange ==
    /\ ~quiet
    /\ \/ \E check \in SyncChecks :
            /\ IF check.id \in DOMAIN consulChecks THEN consulChecks[check.id] # check
                                                 ELSE TRUE
            /\ consulChecks' = Insert(consulChecks, check.id, check)
       \/ \E id \in DOMAIN consulChecks : consulChecks' = Remove(consulChecks, id)
    /\ sinceSync' = IF sinceSync = "clean" THEN "changed" ELSE sinceSync
    /\ UNCHANGED <<consulServices, serviceHashes, checkHashes, store, loop, tick, quiet,
                   errorCount, lastPull>>
    /\ UNCHANGED <<libVars, subVars>>

\* from here on the catalog stays as it is, and every fetch and every
\* submission of a batch succeeds
Quiesce ==
    /\ ~quiet
    /\ quiet' = TRUE
    /\ UNCHANGED <<consulServices, consulChecks, serviceHashes, checkHashes, store, loop,
                   tick, errorCount, lastPull, sinceSync>>
    /\ UNCHANGED <<libVars, subVars>>

\* pull_interval.tick() completes in a loop that has not broken, and the
\* select takes the arm of the pull: select! polls its branches from a random
\* one on, so a tick that is ready can be taken while the tripwire is ready too
Tick ==
    /\ loop \in {"running", "tripped"}
    /\ tick' = ~tick

\* the arm of the pull: update_consul(.., false) from the two fetches to the
\* return of execute
Pull ==
    /\ Tick
    /\ \E fetch_services \in FetchOutcomes, fetch_checks \in FetchOutcomes :
         /\ quiet => fetch_services = "ok" /\ fetch_checks = "ok"
         /\ IF fetch_services # "ok" \/ fetch_checks # "ok"
            THEN \* try_join! returns the error, execute is not called
                 /\ lastPull' = [NoPull EXCEPT !.result = "fetch_failed",
                                               !.unchanged = (sinceSync = "clean"),
                                               !.quiet = quiet]
                 /\ UNCHANGED <<serviceHashes, checkHashes, store, errorCount, sinceSync>>
            ELSE LET svcs == update_services(consulServices, serviceHashes, FALSE)
                     checks == update_checks(consulChecks, checkHashes, FALSE)
                     statements == ServiceStatements(svcs) \o CheckStatements(checks)
                     ok(errors) ==
                         /\ serviceHashes' = HashesAfterExecute(serviceHashes, svcs)
                         /\ checkHashes' = HashesAfterExecute(checkHashes, checks)
                         /\ lastPull' = [result |-> "ok", submitted |-> Len(statements),
                                         errors |-> errors,
                                         svc_stats |-> Stats(svcs),
                                         check_stats |-> Stats(checks),
                                         unchanged |-> (sinceSync = "clean"),
                                         quiet |-> quiet]
                         /\ sinceSync' = "clean"
                 IN  IF statements = <<>>
                     THEN ok(0) /\ UNCHANGED <<store, errorCount>>
                     ELSE \/ \* corrosion.execute(&statements) fails
                             /\ ~quiet
                             /\ serviceHashes' = HashesAfterSubmitError(serviceHashes, svcs)
                             /\ checkHashes' = HashesAfterSubmitError(checkHashes, checks)
                             /\ lastPull' = [NoPull EXCEPT !.result = "submit_failed",
                                                           !.submitted = Len(statements),
                                                           !.unchanged = (sinceSync = "clean"),
                                               !.quiet = quiet]
                             /\ UNCHANGED <<store, errorCount, sinceSync>>
                          \/ \* corrosion.execute(&statements) answers with results
                             \E results \in BatchResults(statements,
                                                         MaxStatementErrors - errorCount) :
                                LET errors == Cardinality({i \in 1..Len(statements) :
                                                             results[i] = "Error"})
                                IN  /\ store' = ApplyBatch(store, statements, results)
                                    /\ errorCount' = errorCount + errors
                                    /\ ok(errors)
    /\ UNCHANGED <<consulServices, consulChecks, loop, quiet>>
    /\ UNCHANGED <<libVars, subVars>>

\* the shutdown signal arrives: from now on the tripwire future is ready
Signal ==
    /\ loop = "running"
    /\ loop' = "tripped"
    /\ UNCHANGED <<consulServices, consulChecks, serviceHashes, checkHashes, store, tick,
                   quiet, errorCount, lastPull, sinceSync>>
    /\ UNCHANGED <<libVars, subVars>>

\* the tripwire wins the select: the loop breaks
Tripwire ==
    /\ loop = "tripped"
    /\ loop' = "exited"
    /\ UNCHANGED <<consulServices, consulChecks, serviceHashes, checkHashes, store, tick,
                   quiet, errorCount, lastPull, sinceSync>>
    /\ UNCHANGED <<libVars, subVars>>

SyncNext ==
    \/ ServiceChange
    \/ CheckChange
    \/ Quiesce
    \/ Pull
    \/ Signal
    \/ Tripwire

(***************************************************************************)
(* Subscriptions: the events of lib.rs 21-34 and, per subscription, the    *)
(* producer the protocol describes and the stream it has emitted so far.   *)
(***************************************************************************)
\* most events one subscription emits
MaxEvents == 6

Subscriptions == {1, 2}

\* QueryEvent; row is the RowId of a Row or Change, change_id the Option of
\* an EndOfQuery or the ChangeId of a Change
Columns == [event |-> "Columns", row |-> 0, change_id |-> None]

Row(rowid) == [event |-> "Row", row |-> rowid, change_id |-> None]

EndOfQuery(change_id) == [event |-> "EndOfQuery", row |-> 0, change_id |-> change_id]

Change(rowid, id) == [event |-> "Change", row |-> rowid, change_id |-> Some(id)]

Error == [event |-> "Error", row |-> 0, change_id |-> None]

\* QueryEvent::meta taking a Row for a Change and a Change for a Row
MetaRowChangeSwapped(e) ==
    CASE e.event = "Columns"    -> [meta |-> "Columns", id |-> 0]
      [] e.event = "Row"        -> [meta |-> "Change", id |-> e.row]
      [] e.event = "EndOfQuery" -> [meta |-> "EndOfQuery", id |-> 0]
      [] e.event = "Change"     -> [meta |-> "Row", id |-> e.change_id[1]]
      [] e.event = "Error"      -> [meta |-> "Error", id |-> 0]

\* QueryEvent::meta
Meta(e) ==
    CASE e.event = "Columns"    -> [meta |-> "Columns", id |-> 0]
      [] e.event = "Row"        -> [meta |-> "Row", id |-> e.row]
      [] e.event = "EndOfQuery" -> [meta |-> "EndOfQuery", id |-> 0]
      [] e.event = "Change"     -> [meta |-> "Change", id |-> e.change_id[1]]
      [] e.event = "Error"      -> [meta |-> "Error", id |-> 0]

\* the RowId of the snapshot's first row, the gaps between RowIds, the
\* watermarks and the RowIds of the rows that change
RowIdBases == {0, 1}

RowIdSteps == {1, 2}

Watermarks == {0, 7}

ChangedRows == {1}

NewSubscription == [state |-> "Start", next_row |-> 0, next_change |-> 0, events |-> <<>>]

SubInit == subs = [s \in Subscriptions |-> NewSubscription]

\* what a producer does when it emits e
Emit(s, e, state, next_row, next_change) ==
    /\ Len(subs[s].events) < MaxEvents
    /\ subs' = [subs EXCEPT ![s] = [state |-> state, next_row |-> next_row,
                                    next_change |-> next_change,
                                    events |-> Append(subs[s].events, e)]]
    /\ UNCHANGED <<libVars, syncVars>>

\* the column names, once and first
EmitColumns ==
    \E s \in Subscriptions, base \in RowIdBases :
        /\ subs[s].state = "Start"
        /\ Emit(s, Columns, "Snapshot", base, 0)

\* a change numbered one past the change before it, after the gap the
\* dropped change leaves
EmitChangeAfterGap ==
    \E s \in Subscriptions, rowid \in ChangedRows :
        /\ subs[s].state = "Live"
        /\ Emit(s, Change(rowid, subs[s].next_change + 1), "Live", subs[s].next_row,
                subs[s].next_change + 2)

\* one row of the snapshot
EmitRow ==
    \E s \in Subscriptions, step \in RowIdSteps :
        /\ subs[s].state = "Snapshot"
        /\ Emit(s, Row(subs[s].next_row), "Snapshot", subs[s].next_row + step, 0)

\* the end of the snapshot, with the watermark if live changes follow
EmitEndOfQuery ==
    \E s \in Subscriptions :
        /\ subs[s].state = "Snapshot"
        /\ \/ Emit(s, EndOfQuery(None), "Closed", subs[s].next_row, 0)
           \/ \E k \in Watermarks :
                Emit(s, EndOfQuery(Some(k)), "Live", subs[s].next_row, k)

\* one live change
EmitChange ==
    \E s \in Subscriptions, rowid \in ChangedRows :
        /\ subs[s].state = "Live"
        /\ Emit(s, Change(rowid, subs[s].next_change), "Live", subs[s].next_row,
                subs[s].next_change + 1)

\* the error that ends the stream
EmitError ==
    \E s \in Subscriptions :
        /\ subs[s].state \in {"Start", "Snapshot", "Live"}
        /\ Emit(s, Error, "Failed", subs[s].next_row, subs[s].next_change)

SubNext ==
    \/ EmitColumns
    \/ EmitRow
    \/ EmitEndOfQuery
    \/ EmitChange
    \/ EmitError

(***************************************************************************)
(* The specifications: the library's calls, the pull loop with and without *)
(* the fairness of its interval, and the subscriptions.                    *)
(***************************************************************************)
Init == LibInit /\ SyncInit /\ SubInit

Spec == Init /\ [][Next]_vars

SyncSpec == Init /\ [][SyncNext]_vars

\* the interval ticks every CONSUL_PULL_INTERVAL, so a loop that is running
\* does not wait for its next tick forever; the steps of the loop that are a
\* Tick are the pulls.  A tripwire that is ready is ready at every select from
\* then on, and a select that picks its first branch at random does not pass
\* it over forever
FairSyncSpec == Init /\ [][SyncNext]_vars /\ WF_tick(Tick) /\ WF_loop(Tripwire)

SubSpec == Init /\ [][SubNext]_vars

(***************************************************************************)
(* The claims.                                                             *)
(***************************************************************************)

\* C1: for every Change c, decoding the bytes c was encoded to succeeds,
\* consumes exactly those bytes and yields a Change structurally equal to c
\* (field by field the same, bit for bit).
C1_ChangeRoundTrip ==
    pc = "change_read" =>
        /\ out.ok
        /\ out.rest = <<>>
        /\ out.v = chg

\* C2: for every value v of every variant, decode(encode(v)) == v.
C2_ValueRoundTrip ==
    pc = "value_read" =>
        /\ out.ok
        /\ ValueEq(out.v, val)

\* C3: decoding a buffer whose first byte, the type tag, is outside 0..4 fails;
\* no value (Null or other) is returned for it.
C3_UnknownTagRejected ==
    (pc = "raw_read" /\ wire # <<>> /\ wire[1] \notin 0..4) => ~out.ok

\* an unknown tag followed by bytes was read, and the read failed
C3_Witness ==
    /\ pc = "raw_read"
    /\ Len(wire) > 1
    /\ wire[1] = 255
    /\ ~out.ok

\* the length a 4-byte prefix announces exceeds the `have` bytes that follow it
AnnouncesMoreThan(prefix, have) ==
    \/ prefix[4] # 0
    \/ prefix[1] + 256 * prefix[2] + 65536 * prefix[3] > have

\* the ways of C4 in which a buffer with a known tag is malformed
Malformed(b) ==
    /\ b # <<>>
    /\ \/ b[1] \in {1, 2} /\ Len(b) < 9
       \/ b[1] \in {3, 4} /\ Len(b) < 5
       \/ b[1] \in {3, 4} /\ Len(b) >= 5
                          /\ AnnouncesMoreThan(SubSeq(b, 2, 5), Len(b) - 5)
       \/ /\ b[1] = 3
          /\ Len(b) >= 5
          /\ ~AnnouncesMoreThan(SubSeq(b, 2, 5), Len(b) - 5)
          /\ ~ValidUtf8(SubSeq(b, 6, 5 + b[2] + 256 * b[3] + 65536 * b[4]))

\* C4: decoding fails, and returns no value, when the Text or Blob payload is
\* shorter than its length prefix announces, when the length prefix or the
\* 8-byte Integer / Real payload is truncated, or when a Text payload is not
\* valid UTF-8.
C4_MalformedRejected ==
    (pc = "raw_read" /\ Malformed(wire)) => ~out.ok

\* C5: the encoding of a value is one tag byte and the payload of its variant
\* (Null: tag 0, nothing; Integer: tag 1, 8 bytes; Real: tag 2, 8 bytes; Text:
\* tag 3 and Blob: tag 4, a 4-byte length and that many raw bytes), and
\* bytes_needed is the number of bytes written.
C5_ValueLayout ==
    pc = "value_written" =>
        /\ size = Len(wire)
        /\ CASE val.kind = "Null"    -> wire = <<0>>
             [] val.kind = "Integer" -> wire[1] = 1 /\ Len(wire) = 1 + 8
             [] val.kind = "Real"    -> wire[1] = 2 /\ Len(wire) = 1 + 8
             [] val.kind \in {"Text", "Blob"} ->
                  /\ wire[1] = IF val.kind = "Text" THEN 3 ELSE 4
                  /\ Len(wire) = 1 + 4 + Len(val.bytes)
                  /\ wire[2] + 256 * wire[3] + 65536 * wire[4] = Len(val.bytes)
                  /\ wire[5] = 0
                  /\ SubSeq(wire, 6, Len(wire)) = val.bytes

\* a Text of two bytes was written, and 7 bytes were announced for it
C5_Witness ==
    /\ pc = "value_written"
    /\ val.kind = "Text"
    /\ Len(val.bytes) = 2
    /\ size = 7

\* where WriteChange puts each field of c: the offsets of table, pk, cid, val,
\* col_version, db_version, seq, site_id, cl
FieldOffsets(c) ==
    LET a == 4 + Len(c.table)
        b == a + 4 + Len(c.pk)
        d == b + 4 + Len(c.cid)
        e == d + Len(WriteValue(c.val))
    IN  <<0, a, b, d, e, e + 8, e + 16, e + 24, e + 40>>

\* C6: the encoding of a Change is its fields' encodings in the order table,
\* pk, cid, val, col_version, db_version, seq, site_id (16 raw bytes, no length
\* prefix), cl; and the decoder reads each field from the bytes that field was
\* encoded to.
C6_ChangeLayout ==
    /\ pc \in {"change_written", "change_read"} =>
         /\ wire = WriteBytes(chg.table) \o WriteBytes(chg.pk) \o WriteBytes(chg.cid)
                      \o WriteValue(chg.val) \o WriteU64(chg.col_version)
                      \o WriteU64(chg.db_version) \o WriteU64(chg.seq)
                      \o chg.site_id \o WriteU64(chg.cl)
         /\ Len(wire) = FieldOffsets(chg)[9] + 8
         /\ SubSeq(wire, FieldOffsets(chg)[8] + 1, FieldOffsets(chg)[9]) = chg.site_id
    /\ pc = "change_read" =>
         /\ out.ok
         /\ out.at = FieldOffsets(chg)

\* C7: for two Real values a and b, a == b implies that a and b feed the same
\* (mantissa, exponent, sign) to the hasher.
C7_EqImpliesSameHash ==
    (pc = "compared" /\ val.kind = "Real" /\ rhs.kind = "Real" /\ cmp.eq)
        => cmp.ha = cmp.hb

\* C8: v == v for every value v, and c == c for every Change c holding it.
C8_EqReflexive ==
    /\ (pc = "compared" /\ val = rhs) => cmp.eq
    /\ (pc = "changes_compared" /\ chg = rchg) => cmp.eq

\* C9: column_type maps Integer to 1, Real to 2 (Float), Text to 3, Blob to 4
\* and Null to 5; from_u8 inverts that numbering on 1..5 and is None elsewhere.
C9_ColumnTypeCodes ==
    /\ pc = "column_type" =>
         /\ val.kind = "Integer" => ctype = "Integer" /\ code = 1
         /\ val.kind = "Real"    => ctype = "Float" /\ code = 2
         /\ val.kind = "Text"    => ctype = "Text" /\ code = 3
         /\ val.kind = "Blob"    => ctype = "Blob" /\ code = 4
         /\ val.kind = "Null"    => ctype = "Null" /\ code = 5
    /\ pc = "from_u8" =>
         /\ code = 1 => ctype = "Integer"
         /\ code = 2 => ctype = "Float"
         /\ code = 3 => ctype = "Text"
         /\ code = 4 => ctype = "Blob"
         /\ code = 5 => ctype = "Null"
         /\ code \notin 1..5 => ctype = "None"

\* from_u8(5) gave Null
C9_Witness ==
    /\ pc = "from_u8"
    /\ code = 5
    /\ ctype = "Null"

\* a parameter as the claim means it: a scalar
IsScalar(j) == j.t \in {"null", "bool", "int", "float", "string"}

IsParamList(j) ==
    j.t = "array" /\ \A i \in 1..Len(j.items) : IsScalar(j.items[i])

IsNamedParams(j) ==
    j.t = "object" /\ \A i \in 1..Len(j.fields) : IsScalar(j.fields[i][2])

\* the value of the one entry of object j with key k; JNull when there is none
Field(j, k) ==
    IF FieldAt(j, k) = {} THEN JNull ELSE j.fields[CHOOSE i \in FieldAt(j, k) : TRUE][2]

\* C10: a Statement is decoded by the shape of the payload: a string gives
\* Simple; a pair of a string and a list of parameters gives WithParams; a pair
\* of a string and an object of named parameters gives WithNamedParams; an
\* object with a `query` string (and, if given, a list as `params` and an
\* object as `named_params`) gives Verbose, with None for what is not given;
\* lists mixing integers, strings and booleans are accepted; and query() is the
\* query string given.
C10_StatementShapes ==
    pc = "statement_decoded" =>
        /\ json.t = "string" =>
             stmt.ok /\ stmt.variant = "Simple" /\ StatementQuery(stmt) = json.s
        /\ ( /\ json.t = "array"
             /\ Len(json.items) = 2
             /\ json.items[1].t = "string"
             /\ IsParamList(json.items[2]) ) =>
             /\ stmt.ok
             /\ stmt.variant = "WithParams"
             /\ StatementQuery(stmt) = json.items[1].s
             /\ Len(stmt.params[1]) = Len(json.items[2].items)
             /\ \A i \in 1..Len(json.items[2].items) :
                    stmt.params[1][i].of = json.items[2].items[i]
        /\ ( /\ json.t = "array"
             /\ Len(json.items) = 2
             /\ json.items[1].t = "string"
             /\ IsNamedParams(json.items[2]) ) =>
             /\ stmt.ok
             /\ stmt.variant = "WithNamedParams"
             /\ StatementQuery(stmt) = json.items[1].s
             /\ DOMAIN stmt.named_params[1] = {f[1] : f \in {json.items[2].fields[i] :
                                                  i \in 1..Len(json.items[2].fields)}}
        /\ ( /\ json.t = "object"
             /\ Cardinality(FieldAt(json, "query")) = 1
             /\ Field(json, "query").t = "string"
             /\ Cardinality(FieldAt(json, "params")) <= 1
             /\ Cardinality(FieldAt(json, "named_params")) <= 1
             /\ Field(json, "params").t = "null" \/ IsParamList(Field(json, "params"))
             /\ \/ Field(json, "named_params").t = "null"
                \/ IsNamedParams(Field(json, "named_params")) ) =>
             /\ stmt.ok
             /\ stmt.variant = "Verbose"
             /\ StatementQuery(stmt) = Field(json, "query").s
             /\ FieldAt(json, "params") = {} => stmt.params = None
             /\ FieldAt(json, "named_params") = {} => stmt.named_params = None
             /\ IsParamList(Field(json, "params")) =>
                    /\ stmt.params # None
                    /\ Len(stmt.params[1]) = Len(Field(json, "params").items)

\* ["some statement", [1, true]] was decoded to WithParams with two parameters
C10_Witness ==
    /\ pc = "statement_decoded"
    /\ json = JArray(<<JStr("some statement"), JArray(<<JInt(1), JBool(TRUE)>>)>>)
    /\ stmt.ok
    /\ stmt.variant = "WithParams"
    /\ stmt.params[1][2].kind = "Bool"

\* the positions of the ops the diff returned for id
OpsFor(id) == {i \in 1..Len(dops) : dops[i].id = id}

\* the diff returned is the exact one for the hash function of its kind
DiffExact(hash(_)) ==
    LET differs(id) == IF id \in DOMAIN dhashes THEN dhashes[id] # hash(dcat[id]) ELSE TRUE
    IN  /\ \A i \in 1..Len(dops) : dops[i].id \in DOMAIN dcat \cup DOMAIN dhashes
        /\ \A id \in DOMAIN dcat :
              IF dskip \/ differs(id)
              THEN \E i \in 1..Len(dops) :
                      /\ OpsFor(id) = {i}
                      /\ dops[i] = UpsertOp(dcat[id], hash(dcat[id]))
              ELSE OpsFor(id) = {}
        /\ \A id \in DOMAIN dhashes \ DOMAIN dcat :
              \E i \in 1..Len(dops) : OpsFor(id) = {i} /\ dops[i] = DeleteOp(id)

\* C11: update_services(catalog, hashes, skip_hash_check) returns exactly one
\* Upsert, carrying the entry and its hash_service, for every catalog id that
\* hashes lacks or holds with another hash (for every catalog id when
\* skip_hash_check is set), exactly one Delete for every id of hashes that the
\* catalog lacks, and no other op; update_checks does the same with hash_check.
C11_DiffExact ==
    /\ pc = "services_diffed" => DiffExact(hash_service)
    /\ pc = "checks_diffed" => DiffExact(hash_check)

\* a diff without skip_hash_check that upserts a changed id, deletes a
\* vanished id and passes over an unchanged id
C11_Witness ==
    /\ pc = "services_diffed"
    /\ ~dskip
    /\ \E a \in DOMAIN dcat \cap DOMAIN dhashes, b \in DOMAIN dhashes \ DOMAIN dcat,
          c \in DOMAIN dcat \cap DOMAIN dhashes :
         /\ dhashes[a] # hash_service(dcat[a])
         /\ dhashes[c] = hash_service(dcat[c])
         /\ Len(dops) = 2
         /\ \E i, j \in 1..2 : dops[i].op = "Upsert" /\ dops[i].id = a
                                /\ dops[j].op = "Delete" /\ dops[j].id = b

\* the hash of every entry of a catalog
CatalogHashes(catalog, hash(_)) == [id \in DOMAIN catalog |-> hash(catalog[id])]

\* both hash maps hold exactly the hashes of the catalog's entries
Synced ==
    /\ serviceHashes = CatalogHashes(consulServices, hash_service)
    /\ checkHashes = CatalogHashes(consulChecks, hash_check)

\* what execute is to leave behind for the ops of one kind
ExecutedOk(ops, hashes, catalog, hash(_), stats, hash_table) ==
    /\ \A i \in 1..Len(ops) :
          IF ops[i].op = "Upsert"
          THEN /\ ops[i].id \in DOMAIN hashes
               /\ hashes[ops[i].id] = ops[i].hash
               /\ ops[i].id \in DOMAIN hash_table
               /\ hash_table[ops[i].id] = ToBeBytes(hashes[ops[i].id])
          ELSE /\ ops[i].id \notin DOMAIN hashes
               /\ ops[i].id \notin DOMAIN hash_table
    /\ hashes = CatalogHashes(catalog, hash)
    /\ stats.upserted = Cardinality({i \in 1..Len(ops) : ops[i].op = "Upsert"})
    /\ stats.deleted = Cardinality({i \in 1..Len(ops) : ops[i].op = "Delete"})

\* C12: when execute returns Ok for the ops of update_services and
\* update_checks, each hash map holds id -> hash for every Upsert and nothing
\* for the id of a Delete, so that it equals the hashes of the catalog; each
\* ApplyStats counts the Upserts and the Deletes of its kind; and the stored
\* hash row of an upserted id is the in-memory hash while the stored hash row
\* of a deleted id is gone.
C12_ExecuteOk ==
    [][Pull /\ lastPull'.result = "ok" =>
          /\ ExecutedOk(update_services(consulServices, serviceHashes, FALSE),
                        serviceHashes', consulServices, hash_service,
                        lastPull'.svc_stats, store'["__corro_consul_services"])
          /\ ExecutedOk(update_checks(consulChecks, checkHashes, FALSE),
                        checkHashes', consulChecks, hash_check,
                        lastPull'.check_stats, store'["__corro_consul_checks"])]_vars

\* C13: a pull that finds the catalog as the last pull that returned Ok left
\* it, and whose fetches succeed, computes no op, submits no batch, returns
\* ApplyStats of 0 and 0 and leaves the hash maps (and the store) as they were.
C13_Idempotent ==
    [][Pull /\ sinceSync = "clean" /\ lastPull'.result # "fetch_failed" =>
          /\ update_services(consulServices, serviceHashes, FALSE) = <<>>
          /\ update_checks(consulChecks, checkHashes, FALSE) = <<>>
          /\ lastPull'.result = "ok"
          /\ lastPull'.submitted = 0
          /\ lastPull'.svc_stats = ZeroStats
          /\ lastPull'.check_stats = ZeroStats
          /\ serviceHashes' = serviceHashes
          /\ checkHashes' = checkHashes
          /\ store' = store]_vars

\* a second sync of an unchanged catalog that holds a service and a check
C13_Witness ==
    /\ lastPull.unchanged
    /\ lastPull.result = "ok"
    /\ DOMAIN serviceHashes # {}
    /\ DOMAIN checkHashes # {}

\* C18: a pull that returns an error, a fetch having failed or timed out or
\* the submission of the batch having failed, leaves both hash maps as they
\* were; and when a fetch failed no statement is submitted and the store is
\* as it was.
C18_FailedPullChangesNothing ==
    [][Pull /\ lastPull'.result \in {"fetch_failed", "submit_failed"} =>
          /\ serviceHashes' = serviceHashes
          /\ checkHashes' = checkHashes
          /\ lastPull'.result = "fetch_failed" =>
                lastPull'.submitted = 0 /\ store' = store]_vars

\* a batch for a service and a check was refused, and the hash maps still
\* lack what the catalog holds
C18_Witness ==
    /\ lastPull.result = "submit_failed"
    /\ lastPull.submitted = 4
    /\ DOMAIN consulServices # {}
    /\ DOMAIN consulChecks # {}
    /\ DOMAIN serviceHashes = {}
    /\ DOMAIN checkHashes = {}

\* the hash map of one kind is not ahead of the two tables of that kind
NotAhead(hashes, hash(_), hash_table, data_table) ==
    /\ \A id \in DOMAIN hashes :
          /\ id \in DOMAIN hash_table
          /\ hash_table[id] = ToBeBytes(hashes[id])
          /\ id \in DOMAIN data_table
          /\ hash(data_table[id]) = hashes[id]
    /\ \A id \in (DOMAIN hash_table \cup DOMAIN data_table) \ DOMAIN hashes : FALSE

\* C19: in every state the pulls reach, a hash map holds id -> h only if the
\* store's hash table holds the row (id, h) and the data table holds the row
\* of an entry with that hash, and lacks an id only if the store holds no row
\* for it; the store answering a statement with an Error result changes
\* nothing of this.
C19_CacheNotAhead ==
    /\ NotAhead(serviceHashes, hash_service, store["__corro_consul_services"],
                store["consul_services"])
    /\ NotAhead(checkHashes, hash_check, store["__corro_consul_checks"],
                store["consul_checks"])

\* C20: once the catalog has stopped changing and every fetch and every
\* submission succeeds, a pull loop that keeps running reaches a state where
\* both hash maps equal the hashes of the catalog's entries, and from such a
\* state on no pull submits a statement.
C20_EventuallySynced ==
    /\ [](quiet /\ [](loop = "running") => <>Synced)
    /\ [][quiet /\ Synced /\ Pull => lastPull'.submitted = 0 /\ Synced']_vars

\* a pull made after the catalog came to rest submitted statements and left
\* the hash maps equal to the catalog's hashes
C20_Witness ==
    /\ quiet
    /\ lastPull.quiet
    /\ lastPull.result = "ok"
    /\ lastPull.submitted > 0
    /\ DOMAIN consulServices # {}
    /\ Synced

\* the kinds of the events of a subscription's stream, in emission order
Kinds(s) == [i \in 1..Len(subs[s].events) |-> Meta(subs[s].events[i]).meta]

\* a sequence of kinds is a prefix of Columns Row* EndOfQuery Change*, or
\* such a prefix ended by one Error
StreamWellFormed(m) ==
    LET n == Len(m)
        at(kind) == {i \in 1..n : m[i] = kind}
    IN  /\ n > 0 => m[1] \in {"Columns", "Error"}
        /\ at("Columns") \subseteq {1}
        /\ Cardinality(at("EndOfQuery")) <= 1
        /\ \A i \in at("Row") : \A j \in at("EndOfQuery") : i < j
        /\ \A i \in at("Change") : \E j \in at("EndOfQuery") : j < i
        /\ \A i \in at("Error") : i = n

IsRow(e) == Meta(e).meta = "Row"

IsChange(e) == Meta(e).meta = "Change"

IsEndOfQuery(e) == Meta(e).meta = "EndOfQuery"

\* the ids of a stream: RowIds increase, ChangeIds start from the watermark
\* and go up by one
IdsInOrder(events) ==
    LET rows == SelectSeq(events, IsRow)
        changes == SelectSeq(events, IsChange)
        eoq == SelectSeq(events, IsEndOfQuery)
    IN  /\ \A i \in 1..(Len(rows) - 1) : Meta(rows[i]).id < Meta(rows[i + 1]).id
        /\ \A i \in 1..(Len(changes) - 1) :
              Meta(changes[i + 1]).id = Meta(changes[i]).id + 1
        /\ Len(changes) > 0 =>
              /\ Len(eoq) = 1
              /\ eoq[1].change_id # None
              /\ Meta(changes[1]).id = eoq[1].change_id[1]

\* C15: in every subscription the RowIds of the Row events are strictly
\* increasing (so distinct) in emission order, and the ChangeIds of the Change
\* events start from the watermark of the EndOfQuery and each is the one
\* before plus one; and a step that emits an event of one subscription leaves
\* every other subscription, its ids included, as it was.
C15_IdsInOrder ==
    [][/\ \A s \in Subscriptions : IdsInOrder(subs'[s].events)
       /\ \A s \in Subscriptions :
             subs'[s] # subs[s] => \A t \in Subscriptions \ {s} : subs'[t] = subs[t]]_vars

\* one subscription with a gap between its RowIds and two changes from the
\* watermark 7, the other with two changes from the watermark 0
C15_Witness ==
    /\ subs[1].events = <<Columns, Row(1), Row(3), EndOfQuery(Some(7)), Change(1, 7),
                          Change(1, 8)>>
    /\ subs[2].events = <<Columns, EndOfQuery(Some(0)), Change(1, 0), Change(1, 1)>>

\* the payload of a value in the wire format: what follows the tag byte
WirePayload(v) == Len(WriteValue(v)) - 1

\* C16 as stated: the estimate of a Change is len(table) + len(pk) + len(cid)
\* + the value's estimate + 8 + 8 + 8 + 16 + 8, where the value's estimate is
\* 1 plus its payload, the payload of every value, Null too, counted as in
\* the wire format.
C16_EstimateAsWire ==
    pc = "estimated" =>
        size = Len(chg.table) + Len(chg.pk) + Len(chg.cid) + (1 + WirePayload(chg.val))
                 + 8 + 8 + 8 + 16 + 8

\* C16, amended: the value's estimate is 1 plus 8 for Integer and Real,
\* 1 plus 4 + length for Text and Blob, and 1 plus 1 for Null, one byte more
\* than Null takes in the wire format.
C16_Estimate ==
    pc = "estimated" =>
        size = Len(chg.table) + Len(chg.pk) + Len(chg.cid)
                 + (1 + CASE chg.val.kind = "Null" -> 1
                          [] chg.val.kind \in {"Integer", "Real"} -> 8
                          [] chg.val.kind \in {"Text", "Blob"} -> 4 + Len(chg.val.bytes))
                 + 8 + 8 + 8 + 16 + 8

\* the estimate of a change of Null with a table, a key and a column named
C16_Witness ==
    /\ pc = "estimated"
    /\ chg.val = Null
    /\ chg.table # <<>> /\ chg.pk # <<>> /\ chg.cid # <<>>
    /\ size = Len(chg.table) + Len(chg.pk) + Len(chg.cid) + 50

\* the four names and the column types they name
NamedType(s) ==
    CASE s = NameINTEGER -> "Integer"
      [] s = NameREAL    -> "Float"
      [] s = NameTEXT    -> "Text"
      [] s = NameBLOB    -> "Blob"

\* C17: looking up a column-type name succeeds only for the texts INTEGER,
\* REAL, TEXT and BLOB, giving Integer, Float, Text and Blob; for every other
\* text and every stored value that is not a text column_result is an error,
\* and for every str from_sqlite_name is Some(t) exactly when column_result
\* is Ok(t).
C17_NameParsing ==
    pc = "column_name" =>
        /\ IF val.kind = "Text" /\ val.bytes \in {NameINTEGER, NameREAL, NameTEXT, NameBLOB}
           THEN ctype = NamedType(val.bytes)
           ELSE ctype = "InvalidType"
        /\ val.kind = "Text" /\ ValidUtf8(val.bytes) =>
              /\ ctypeName = "None" <=> ctype = "InvalidType"
              /\ ctypeName # "None" => ctypeName = ctype

\* the lookup of the abbreviation INT, which both conversions refuse
C17_Witness ==
    /\ pc = "column_name"
    /\ val = Text(NameINT)
    /\ ctype = "InvalidType"
    /\ ctypeName = "None"

\* every tick of the interval is one pull, and a pull that returned an error
\* leaves the loop as it was, with the hash maps it had
C21_ErrorKeepsLoop ==
    [][/\ tick' # tick => Pull /\ lastPull'.result # "none"
       /\ Pull /\ lastPull'.result \in {"fetch_failed", "submit_failed"} =>
             /\ loop' = loop
             /\ serviceHashes' = serviceHashes
             /\ checkHashes' = checkHashes]_vars

\* a loop that keeps running keeps pulling, whatever the pulls return
C21_NextTickPulls ==
    [](loop = "running") => [](tick => <>~tick) /\ [](~tick => <>tick)

\* a loop whose tripwire has fired exits
C21_TrippedLoopExits == (loop = "tripped") ~> (loop = "exited")

\* no pull starts once the tripwire has fired
C21_NoPullOnceTripped == [][loop # "running" => tick' = tick]_vars

\* C21: the pull loop makes one pull per tick of its interval; a pull that
\* returns an error does not end the loop, and the next tick makes another
\* pull with the hash maps unchanged; once the shutdown tripwire has fired the
\* loop exits and starts no further pull.
C21_PullLoop ==
    /\ C21_ErrorKeepsLoop
    /\ C21_NextTickPulls
    /\ C21_TrippedLoopExits
    /\ C21_NoPullOnceTripped

\* the fields of a check that are to decide its hash, value by value: the
\* service's name and id, then the fields its directives list, in the order
\* of the list, or the status when its notes are no directives
HashedFields(check) ==
    LET directives == IF check.notes = None THEN None
                      ELSE ParseDirectives(check.notes[1])
        value(field) == IF field = "Status" THEN StatusAsStr(check.status)
                        ELSE check.output
    IN  <<check.service_name, check.service_id>>
          \o (IF directives # None
              THEN [i \in 1..Len(directives[1]) |-> value(directives[1][i])]
              ELSE <<StatusAsStr(check.status)>>)

\* C22: for a check that the hash map holds and whose notes are as they were
\* when it was hashed, update_checks without skip_hash_check emits an Upsert
\* when a hashed field has changed and nothing when only other fields have
\* changed, the hashed fields being service_name, service_id and the fields
\* of hash_include or, without directives, the status; and two such checks
\* that differ in a hashed field feed different bytes to the hasher.
C22_HashedFieldsDecide ==
    pc = "known_check_diffed" =>
        LET id == CHOOSE id \in DOMAIN dcat : TRUE
            old == dprev[id]
            new == dcat[id]
            changed == HashedFields(old) # HashedFields(new)
        IN  old.notes = new.notes =>
              /\ changed => dops = <<UpsertOp(new, hash_check(new))>>
              /\ ~changed => dops = <<>>
              /\ changed => CheckHashInput(old) # CheckHashInput(new)

=============================================================================
